---- MODULE Spec2Model ----
(***************************************************************************)
(* Constraint tracking of coolprop_oop: the StateHA (humid air) and        *)
(* StateProps (pure fluid) objects of src/coolprop_oop/coolprop_oop.py.    *)
(*                                                                         *)
(* Numbers are held as integer multiples of a per-property resolution:     *)
(* 0.01 for temperatures, ratios (relhum, humrat, quality), vol, density,  *)
(* dens, viscosity and conductivity; 1 for press, enthalpy, entropy, cp,   *)
(* cv and prandtl.  So 273.15 K is 27315 and relhum 0.5 is 50.             *)
(***************************************************************************)
EXTENDS Integers, Sequences, FiniteSets, TLC

VARIABLES kind, cset, val, fluid, last

vars == <<kind, cset, val, fluid, last>>

(***************************************************************************)
(* Python values.                                                          *)
(***************************************************************************)
None == [t |-> "none", v |-> 0]
Num(n) == [t |-> "num", v |-> n]
\* float('nan'): a float that every comparison answers with False
NaN == [t |-> "nan", v |-> 0]
\* strings: "" is Text(0), a fluid name such as 'Water' is Text(1), and
\* Text(2) is a number written as a string, such as "293.15"
Text(i) == [t |-> "str", v |-> i]

\* isinstance(value, (int, float))
IsNumber(x) == x.t \in {"num", "nan"}

\* isinstance(value, str)
IsString(x) == x.t = "str"

\* abs(value)
Abs(n) == IF n < 0 THEN -n ELSE n

\* value < c, value <= c, value > c, abs(value) > c
Lt(x, c) == x.t = "num" /\ x.v < c
Le(x, c) == x.t = "num" /\ x.v <= c
Gt(x, c) == x.t = "num" /\ x.v > c
AbsGt(x, c) == x.t = "num" /\ Abs(x.v) > c

\* value + 273.15, in hundredths of a kelvin
KelvinOffset == 27315

\* value + c
Plus(x, c) == IF x.t = "nan" THEN NaN ELSE Num(x.v + c)

\* 1.0 / value on the 0.01 grid (value > 0)
Recip(n) == 10000 \div n

\* 1.0 / value for a value that is not zero
Inverse(x) == IF x.t = "nan" THEN NaN ELSE Num(Recip(x.v))

(***************************************************************************)
(* The two classes, their attributes and their code tables.                *)
(***************************************************************************)
HANames ==
    {"tempk", "tempc", "press", "humrat", "wetbulb", "relhum", "vol", "enthalpy",
     "entropy", "dewpoint", "density", "cp", "viscosity", "conductivity", "prandtl"}

PropsAttrs ==
    {"tempk", "tempc", "press", "dens", "enthalpy", "entropy", "quality", "cp", "cv"}

PropsNames == PropsAttrs \cup {"vol"}

\* the attributes __init__ creates (the _x fields)
Attrs(k) == IF k = "HA" THEN HANames ELSE PropsAttrs

\* the names that have a property setter
Names(k) == IF k = "HA" THEN HANames ELSE PropsNames

\* StateHA._prop_map
HAPropMap ==
    [p \in HANames |->
        CASE p = "tempk" -> "T" [] p = "tempc" -> "T" [] p = "press" -> "P"
          [] p = "humrat" -> "W" [] p = "wetbulb" -> "B" [] p = "relhum" -> "R"
          [] p = "dewpoint" -> "D" [] p = "vol" -> "V" [] p = "enthalpy" -> "H"
          [] p = "entropy" -> "S" [] p = "density" -> "D" [] p = "cp" -> "C"
          [] p = "viscosity" -> "M" [] p = "conductivity" -> "K"
          [] p = "prandtl" -> "L"]

\* StateProps._prop_map (it has no entry for vol)
PropsPropMap ==
    [p \in PropsAttrs |->
        CASE p = "tempk" -> "T" [] p = "tempc" -> "T" [] p = "press" -> "P"
          [] p = "dens" -> "D" [] p = "enthalpy" -> "H" [] p = "entropy" -> "S"
          [] p = "quality" -> "Q" [] p = "cp" -> "C" [] p = "cv" -> "O"]

\* the number of independent properties of a fully defined state
RequiredPins(k) == IF k = "HA" THEN 3 ELSE 2

(***************************************************************************)
(* Exceptions: the type raised and the text of the message.  wrapped means *)
(* the text is prefixed by "Cannot set <name> - ".                         *)
(***************************************************************************)
NoExc == [exc |-> "none", msg |-> "none", wrapped |-> FALSE]
Raise(e, m) == [exc |-> e, msg |-> m, wrapped |-> FALSE]

(***************************************************************************)
(* validate_input_ha: the exception the decorator raises for (p, x), or    *)
(* NoExc when it goes on to call the wrapped setter.                       *)
(***************************************************************************)
validate_input_ha(p, x) ==
    IF ~IsNumber(x) THEN Raise("TypeError", "must be a number")
    ELSE IF p \in {"tempk", "wetbulb", "dewpoint"} THEN
        IF Le(x, 0) THEN Raise("ValueError", "must be above absolute zero")
        ELSE IF Gt(x, 47315) THEN Raise("ValueError", "exceeding reasonable range")
        ELSE NoExc
    ELSE IF p = "tempc" THEN
        IF Lt(x, -27315) THEN Raise("ValueError", "cannot be below absolute zero")
        ELSE IF Gt(x, 20000) THEN Raise("ValueError", "exceeding reasonable range")
        ELSE NoExc
    ELSE IF p = "press" THEN
        IF Le(x, 0) THEN Raise("ValueError", "must be positive")
        ELSE IF Lt(x, 1000) THEN Raise("ValueError", "below reasonable range")
        ELSE IF Gt(x, 10000000) THEN Raise("ValueError", "exceeding reasonable range")
        ELSE NoExc
    ELSE IF p = "relhum" THEN
        IF Lt(x, 0) THEN Raise("ValueError", "cannot be negative")
        ELSE IF Gt(x, 100) THEN Raise("ValueError", "cannot exceed 1")
        ELSE NoExc
    ELSE IF p = "humrat" THEN
        IF Lt(x, 0) THEN Raise("ValueError", "cannot be negative")
        ELSE IF Gt(x, 100) THEN Raise("ValueError", "exceeding reasonable range")
        ELSE NoExc
    ELSE IF p = "vol" THEN
        IF Le(x, 0) THEN Raise("ValueError", "must be positive")
        ELSE IF Gt(x, 100000) THEN Raise("ValueError", "exceeding reasonable range")
        ELSE NoExc
    ELSE IF p = "enthalpy" THEN
        IF AbsGt(x, 10000000) THEN Raise("ValueError", "exceeding reasonable range")
        ELSE NoExc
    ELSE IF p = "entropy" THEN
        IF AbsGt(x, 100000) THEN Raise("ValueError", "exceeding reasonable range")
        ELSE NoExc
    ELSE IF p = "density" THEN
        IF Le(x, 0) THEN Raise("ValueError", "must be positive")
        ELSE IF Gt(x, 5000) THEN Raise("ValueError", "exceeding reasonable range")
        ELSE NoExc
    ELSE IF p = "cp" THEN
        IF Le(x, 0) THEN Raise("ValueError", "must be positive")
        ELSE IF Gt(x, 10000) THEN Raise("ValueError", "exceeding reasonable range")
        ELSE NoExc
    ELSE IF p \in {"viscosity", "conductivity"} THEN
        IF Le(x, 0) THEN Raise("ValueError", "must be positive")
        ELSE IF Gt(x, 100) THEN Raise("ValueError", "exceeding reasonable range")
        ELSE NoExc
    ELSE IF p = "prandtl" THEN
        IF Le(x, 0) THEN Raise("ValueError", "must be positive")
        ELSE IF Gt(x, 1000) THEN Raise("ValueError", "exceeding reasonable range")
        ELSE NoExc
    ELSE NoExc

(***************************************************************************)
(* validate_input_props (it has no branch for vol).                        *)
(***************************************************************************)
validate_input_props(p, x) ==
    IF ~IsNumber(x) THEN Raise("TypeError", "must be a number")
    ELSE IF p = "tempk" THEN
        IF Le(x, 0) THEN Raise("ValueError", "must be above absolute zero")
        ELSE IF Gt(x, 200000) THEN Raise("ValueError", "exceeding reasonable range")
        ELSE NoExc
    ELSE IF p = "tempc" THEN
        IF Lt(x, -27315) THEN Raise("ValueError", "cannot be below absolute zero")
        ELSE IF Gt(x, 172685) THEN Raise("ValueError", "exceeding reasonable range")
        ELSE NoExc
    ELSE IF p = "press" THEN
        IF Le(x, 0) THEN Raise("ValueError", "must be positive")
        ELSE IF Gt(x, 1000000000) THEN Raise("ValueError", "exceeding reasonable range")
        ELSE NoExc
    ELSE IF p = "dens" THEN
        IF Le(x, 0) THEN Raise("ValueError", "must be positive")
        ELSE IF Gt(x, 10000000) THEN Raise("ValueError", "exceeding reasonable range")
        ELSE NoExc
    ELSE IF p = "quality" THEN
        IF Lt(x, 0) \/ Gt(x, 100) THEN Raise("ValueError", "must be between 0 and 1")
        ELSE NoExc
    ELSE IF p = "enthalpy" THEN
        IF AbsGt(x, 100000000) THEN Raise("ValueError", "exceeding reasonable range")
        ELSE NoExc
    ELSE IF p = "entropy" THEN
        IF AbsGt(x, 1000000) THEN Raise("ValueError", "exceeding reasonable range")
        ELSE NoExc
    ELSE IF p \in {"cp", "cv"} THEN
        IF Le(x, 0) THEN Raise("ValueError", "must be positive")
        ELSE IF Gt(x, 100000) THEN Raise("ValueError", "exceeding reasonable range")
        ELSE NoExc
    ELSE NoExc

(***************************************************************************)
(* The undecorated setter bodies: the exception they raise themselves, and *)
(* the attributes they assign.                                             *)
(***************************************************************************)
SetterBodyExc(k, p, x) ==
    IF p = "vol" THEN
        IF Le(x, 0) THEN Raise("ValueError", "must be positive")
        ELSE IF Gt(x, 100000) THEN Raise("ValueError", "exceeding reasonable range")
        ELSE NoExc
    ELSE NoExc

\* Mutant of SetterBody: the StateProps vol setter stores the volume itself in
\* _dens, without taking the reciprocal.
SetterBody_NoReciprocal(k, vl, p, x) ==
    IF p = "tempc" THEN
        [vl EXCEPT !["tempc"] = x, !["tempk"] = Plus(x, KelvinOffset)]
    ELSE IF k = "PROPS" /\ p = "vol" THEN [vl EXCEPT !["dens"] = x]
    ELSE [vl EXCEPT ![p] = x]

SetterBody(k, vl, p, x) ==
    IF p = "tempc" THEN
        [vl EXCEPT !["tempc"] = x, !["tempk"] = Plus(x, KelvinOffset)]
    ELSE IF k = "PROPS" /\ p = "vol" THEN
        [vl EXCEPT !["dens"] = Inverse(x)]
    ELSE [vl EXCEPT ![p] = x]

\* func(self, value) as the state_setter decorators call it: the validating
\* wrapper and then the setter body
OrElse(first, second) == IF first.exc # "none" THEN first ELSE second

FuncExc(k, p, x) ==
    OrElse(IF k = "HA" THEN validate_input_ha(p, x) ELSE validate_input_props(p, x),
           SetterBodyExc(k, p, x))

(***************************************************************************)
(* state_setter_ha and state_setter_PROPS.  A write is a function of the   *)
(* object (cs = _constraints_set, vl = the _x attributes, fl = _fluid) and *)
(* its argument; its result is the object afterwards, the exception that   *)
(* reaches the caller and the number of HAPropsSI / PropsSI calls made.    *)
(***************************************************************************)
Outcome(cs, vl, e, n) == [cset |-> cs, val |-> vl, exc |-> e, calls |-> n]

\* "we have 0 or 1 constraint or this property is already set"
AlwaysAllow(cs, p) == Cardinality(cs) < 2 \/ p \in cs

\* Mutant of CannotSet: "except ValueError" in place of "except Exception", so
\* that a TypeError leaves the setter with its own type.
CannotSet_ValueErrorOnly(e) ==
    IF e.exc = "ValueError" THEN [exc |-> "ValueError", msg |-> e.msg, wrapped |-> TRUE]
    ELSE e

\* except Exception as e: raise ValueError(f"Cannot set {prop_name} - {str(e)}")
CannotSet(e) == [exc |-> "ValueError", msg |-> e.msg, wrapped |-> TRUE]

\* the part of both decorators after the fluid check
\* Mutant of TrackAndSetOn: the name is added to the constraint set before
\* func(self, value) is called, so it stays there when the call raises.
TrackAndSetOn_AddFirst(k, cs, vl, p, x, e) ==
    IF e.exc = "none"
    THEN Outcome(cs \cup {p}, SetterBody(k, vl, p, x), NoExc, 0)
    ELSE Outcome(cs \cup {p}, vl, IF AlwaysAllow(cs, p) THEN e ELSE CannotSet(e), 0)

\* Mutant of TrackAndSetOn: once the write would complete the state, the
\* property library is asked about the combination before the value is looked at.
TrackAndSetOn_OracleFirst(k, cs, vl, p, x, e) ==
    LET n == IF Cardinality(cs \cup {p}) >= RequiredPins(k) THEN 1 ELSE 0
    IN  IF e.exc = "none"
        THEN Outcome(cs \cup {p}, SetterBody(k, vl, p, x), NoExc, n)
        ELSE Outcome(cs, vl, IF AlwaysAllow(cs, p) THEN e ELSE CannotSet(e), n)

\* Mutant of TrackAndSetOn: a write that raises takes the name out of the
\* constraint set.
TrackAndSetOn_DiscardOnError(k, cs, vl, p, x, e) ==
    IF e.exc = "none"
    THEN Outcome(cs \cup {p}, SetterBody(k, vl, p, x), NoExc, 0)
    ELSE Outcome(cs \ {p}, vl, IF AlwaysAllow(cs, p) THEN e ELSE CannotSet(e), 0)

\* e is what func(self, value) raises
TrackAndSetOn(k, cs, vl, p, x, e) ==
    IF AlwaysAllow(cs, p) THEN
        IF e.exc = "none"
        THEN Outcome(cs \cup {p}, SetterBody(k, vl, p, x), NoExc, 0)
        ELSE Outcome(cs, vl, e, 0)
    ELSE
        IF e.exc = "none"
        THEN Outcome(cs \cup {p}, SetterBody(k, vl, p, x), NoExc, 0)
        ELSE Outcome(cs, vl, CannotSet(e), 0)

TrackAndSet(k, cs, vl, p, x) == TrackAndSetOn(k, cs, vl, p, x, FuncExc(k, p, x))

state_setter_ha(cs, vl, p, x) == TrackAndSet("HA", cs, vl, p, x)

\* if not hasattr(self, '_fluid') or self._fluid is None: raise ValueError(...)
FluidMissing(fl) == fl = None

\* Mutant of state_setter_PROPS: the decorators are stacked the other way
\* round, so the value is validated before the fluid is looked at.
state_setter_PROPS_ValidateFirst(cs, vl, fl, p, x) ==
    IF FuncExc("PROPS", p, x).exc # "none" THEN Outcome(cs, vl, FuncExc("PROPS", p, x), 0)
    ELSE IF FluidMissing(fl)
    THEN Outcome(cs, vl, [exc |-> "ValueError", msg |-> "fluid type must be set first",
                          wrapped |-> TRUE], 0)
    ELSE TrackAndSet("PROPS", cs, vl, p, x)

state_setter_PROPS(cs, vl, fl, p, x) ==
    IF FluidMissing(fl)
    THEN Outcome(cs, vl, [exc |-> "ValueError", msg |-> "fluid type must be set first",
                          wrapped |-> TRUE], 0)
    ELSE TrackAndSet("PROPS", cs, vl, p, x)

\* setattr(self, name, value) on an object of class k
SetAttr(k, cs, vl, fl, p, x) ==
    IF k = "HA" THEN state_setter_ha(cs, vl, p, x)
    ELSE state_setter_PROPS(cs, vl, fl, p, x)

(***************************************************************************)
(* The property library (HAPropsSI, PropsSI) behind get_prop.  It is not   *)
(* part of the package; it is a pure function of the inputs handed to it   *)
(* that raises ValueError for a combination without a solution.  ins maps  *)
(* each pinned name to the <<code, value>> pair passed for it.  The        *)
(* library is a table of physical states, one record per state with the    *)
(* value of every code in it, so that whatever is read from a state and    *)
(* handed back as an input leads to the same state.                        *)
(***************************************************************************)
\* the wrapped functions take exactly RequiredPins name/value pairs
OracleArity(k, ins) == Cardinality(DOMAIN ins) = RequiredPins(k)

\* water's critical temperature, 647.10 K
CritT == 64710

\* water's critical pressure, 22.064 MPa
CritP == 22064000

\* humid air: T, B, D in 0.01 K, W and R in 0.01, V in 0.01 m3/kg, the rest
\* in SI units
HAStates ==
    {[T |-> 29815, P |-> 101325, W |-> 1, B |-> 29115, R |-> 50, D |-> 28715,
      V |-> 50, H |-> 50000, S |-> 180, C |-> 1020, M |-> 1, K |-> 3, L |-> 1],
     [T |-> 30815, P |-> 101325, W |-> 2, B |-> 29915, R |-> 50, D |-> 29615,
      V |-> 90, H |-> 80000, S |-> 280, C |-> 1040, M |-> 3, K |-> 5, L |-> 2],
     [T |-> 30815, P |-> 101325, W |-> 3, B |-> 30415, R |-> 85, D |-> 30315,
      V |-> 80, H |-> 110000, S |-> 380, C |-> 1060, M |-> 2, K |-> 4, L |-> 3]}

\* water: T in 0.01 K, D in 0.01 kg/m3, Q in 0.01 (-1 outside the two-phase
\* region), the rest in SI units
PropsStates ==
    {[T |-> 37315, P |-> 101325, D |-> 100, H |-> 2000000, S |-> 7000, Q |-> 50,
      C |-> 4180, O |-> 4130, Tcrit |-> CritT,
      pcrit |-> CritP],
     [T |-> 29815, P |-> 101325, D |-> 200, H |-> 104800, S |-> 367, Q |-> -100,
      C |-> 4181, O |-> 4138, Tcrit |-> CritT,
      pcrit |-> CritP],
     [T |-> 70000, P |-> 101325, D |-> 31, H |-> 3900000, S |-> 9000,
      Q |-> -100, C |-> 2100, O |-> 1650, Tcrit |-> CritT,
      pcrit |-> CritP]}

OracleStates(k) == IF k = "HA" THEN HAStates ELSE PropsStates

\* the states that agree with every input
Solutions(k, ins) ==
    {s \in OracleStates(k) :
        \A n \in DOMAIN ins : ins[n][1] \in DOMAIN s /\ s[ins[n][1]] = ins[n][2]}

\* combinations without a solution: a repeated input code, inputs no state
\* has (a dew point above the dry bulb, a vapor quality above the critical
\* temperature), an output the library does not know
OracleRejects(k, out, ins) ==
    \/ \E a, b \in DOMAIN ins : a # b /\ ins[a][1] = ins[b][1]
    \/ Solutions(k, ins) = {}
    \/ \A s \in OracleStates(k) : out \notin DOMAIN s

\* the value returned for an accepted combination
OracleValue(k, out, ins) == (CHOOSE s \in Solutions(k, ins) : TRUE)[out]

Ret(x, n) == [exc |-> "none", ret |-> x, calls |-> n]
Exc(e, n) == [exc |-> e, ret |-> None, calls |-> n]

Oracle(k, out, ins) ==
    IF ~OracleArity(k, ins) THEN Exc("TypeError", 1)
    ELSE IF OracleRejects(k, out, ins) THEN Exc("ValueError", 1)
    ELSE Ret(Num(OracleValue(k, out, ins)), 1)

(***************************************************************************)
(* get_prop: the inputs built from the constraint set, and the call.       *)
(***************************************************************************)
PropMap(k) == IF k = "HA" THEN HAPropMap ELSE PropsPropMap

\* "Handle Celsius conversion"
InputValue(vl, n) == IF n = "tempc" THEN vl[n].v + KelvinOffset ELSE vl[n].v

BuildProps(k, cs, vl) == [n \in cs |-> <<PropMap(k)[n], InputValue(vl, n)>>]

HA_get_prop(cs, vl, out) ==
    IF Cardinality(cs) < 3 THEN Exc("ValueError", 0)
    ELSE Oracle("HA", out, BuildProps("HA", cs, vl))

\* Mutant of Props_get_prop: "if self._fluid is None" in place of
\* "if not self._fluid", so that the empty fluid name reaches PropsSI.
Props_get_prop_NoneOnly(cs, vl, fl, out) ==
    IF Cardinality(cs) < 2 THEN Exc("ValueError", 0)
    ELSE IF fl = None THEN Exc("ValueError", 0)
    ELSE IF ~(cs \subseteq DOMAIN PropsPropMap) THEN Exc("KeyError", 0)
    ELSE Oracle("PROPS", out, BuildProps("PROPS", cs, vl))

Props_get_prop(cs, vl, fl, out) ==
    IF Cardinality(cs) < 2 THEN Exc("ValueError", 0)
    ELSE IF fl = None \/ fl = Text(0) THEN Exc("ValueError", 0)
    ELSE IF ~(cs \subseteq DOMAIN PropsPropMap) THEN Exc("KeyError", 0)
    ELSE Oracle("PROPS", out, BuildProps("PROPS", cs, vl))

(***************************************************************************)
(* The property getters.                                                   *)
(***************************************************************************)
\* Mutant of HA_plain: the getter never asks the property library and returns
\* whatever the attribute holds.
HA_plain_Stored(cs, vl, p, out) == Ret(vl[p], 0)

\* the shape shared by most StateHA getters and by StateProps tempk, press, dens
HA_plain(cs, vl, p, out) ==
    IF p \in cs THEN Ret(vl[p], 0)
    ELSE IF Cardinality(cs) = 3 THEN HA_get_prop(cs, vl, out)
    ELSE Ret(vl[p], 0)

Props_plain(cs, vl, fl, p, out) ==
    IF p \in cs THEN Ret(vl[p], 0)
    ELSE IF Cardinality(cs) = 2 THEN Props_get_prop(cs, vl, fl, out)
    ELSE Ret(vl[p], 0)

\* "return self.tempk - 273.15": None - 273.15 raises TypeError
MinusOffset(r) ==
    IF r.exc # "none" THEN r
    ELSE IF r.ret = None THEN Exc("TypeError", r.calls)
    ELSE Ret(Plus(r.ret, -KelvinOffset), r.calls)

\* "1/vol if vol is not None else None", "1.0 / self.dens"
OneOver(r) ==
    IF r.exc # "none" THEN r
    ELSE IF r.ret = None THEN Ret(None, r.calls)
    ELSE IF r.ret = Num(0) THEN Exc("ZeroDivisionError", r.calls)
    ELSE Ret(Inverse(r.ret), r.calls)

HA_getter(cs, vl, p) ==
    IF p = "tempc" THEN
        IF "tempc" \in cs THEN Ret(vl["tempc"], 0)
        ELSE IF "tempk" \in cs THEN Ret(Plus(vl["tempk"], -KelvinOffset), 0)
        ELSE MinusOffset(HA_plain(cs, vl, "tempk", "T"))
    ELSE IF p = "density" THEN
        IF "density" \in cs THEN Ret(vl["density"], 0)
        ELSE IF Cardinality(cs) = 3 THEN OneOver(HA_get_prop(cs, vl, "V"))
        ELSE Ret(vl["density"], 0)
    ELSE IF p = "dewpoint" THEN HA_plain(cs, vl, p, "D")
    ELSE HA_plain(cs, vl, p, HAPropMap[p])

\* Mutant of NoneOnValueError: every guarded getter answers a ValueError of
\* get_prop with None, not only quality.
NoneOnValueError_Every(p, r) ==
    IF r.exc = "ValueError" THEN Ret(None, r.calls) ELSE r

\* StateProps quality, enthalpy, entropy, cp, cv
\* quality: "except ValueError: return None"
NoneOnValueError(p, r) ==
    IF p = "quality" /\ r.exc = "ValueError" THEN Ret(None, r.calls) ELSE r

Props_guarded(cs, vl, fl, p) ==
    IF p \in cs THEN Ret(vl[p], 0)
    ELSE IF Cardinality(cs) = 2 /\ fl # None THEN
        NoneOnValueError(p, Props_get_prop(cs, vl, fl, PropsPropMap[p]))
    ELSE Ret(None, 0)

\* vol reads self.dens twice: once for the test, once for the division
TwiceOneOver(r) ==
    IF r.exc # "none" \/ r.ret = None THEN OneOver(r) ELSE OneOver(Ret(r.ret, 2 * r.calls))

Props_getter(cs, vl, fl, p) ==
    IF p = "tempc" THEN
        IF "tempc" \in cs THEN Ret(vl["tempc"], 0)
        ELSE IF "tempk" \in cs THEN Ret(Plus(vl["tempk"], -KelvinOffset), 0)
        ELSE MinusOffset(Props_plain(cs, vl, fl, "tempk", "T"))
    ELSE IF p = "vol" THEN TwiceOneOver(Props_plain(cs, vl, fl, "dens", "D"))
    ELSE IF p \in {"tempk", "press", "dens"} THEN
        Props_plain(cs, vl, fl, p, PropsPropMap[p])
    ELSE Props_guarded(cs, vl, fl, p)

\* getattr(self, name) on an object of class k
GetAttr(k, cs, vl, fl, p) ==
    IF k = "HA" THEN HA_getter(cs, vl, p) ELSE Props_getter(cs, vl, fl, p)

(***************************************************************************)
(* The constraints property of both classes.                               *)
(***************************************************************************)
\* every property name, in the order sorted() puts strings in
Alphabet ==
    <<"conductivity", "cp", "cv", "dens", "density", "dewpoint", "enthalpy",
      "entropy", "humrat", "prandtl", "press", "quality", "relhum", "tempc",
      "tempk", "viscosity", "vol", "wetbulb">>

InSet(cs, n) == n \in cs

\* sorted(list(self._constraints_set))
sorted(cs) == SelectSeq(Alphabet, LAMBDA n : InSet(cs, n))

\* StateHA.constraints: the sorted list and nothing else
HA_constraints(cs) ==
    [properties |-> sorted(cs), exc |-> "none", calls |-> 0]

Status(s, n) == [status |-> s, calls |-> n]

\* "if 'quality' in props": the status is read off the pinned quality
StatusOfQuality(vl) ==
    IF vl["quality"] = Num(0) THEN Status("saturated_liquid", 0)
    ELSE IF vl["quality"] = Num(100) THEN Status("saturated_vapor", 0)
    ELSE Status("two_phase", 0)

\* "if quality == -1.0": pc and tc are the outcomes of get_prop('pcrit') and
\* get_prop('Tcrit'); an exception ends in the bare except of the inner try
StatusByCritical(cs, vl, pc, tc) ==
    IF "press" \notin cs THEN Status("single_phase", 0)
    ELSE IF pc.exc # "none" THEN Status("single_phase", pc.calls)
    ELSE IF Gt(vl["press"], pc.ret.v) THEN Status("supercritical", pc.calls)
    ELSE IF "tempk" \notin cs /\ "tempc" \notin cs THEN Status("none", pc.calls)
    ELSE IF tc.exc # "none" THEN Status("single_phase", pc.calls + tc.calls)
    ELSE IF Gt(vl["tempk"], tc.ret.v) THEN Status("supercritical", pc.calls + tc.calls)
    ELSE Status("liquid", pc.calls + tc.calls)

\* the status of a complete state; q is the outcome of self.quality
Props_status(cs, vl, q, pc, tc) ==
    IF "quality" \in cs THEN StatusOfQuality(vl)
    ELSE IF q.exc # "none" THEN Status("single_phase", q.calls)
    ELSE IF q.ret = Num(-100) THEN
        Status(StatusByCritical(cs, vl, pc, tc).status,
               q.calls + StatusByCritical(cs, vl, pc, tc).calls)
    ELSE Status("two_phase", q.calls)

\* Mutant of IsComplete: two or more names count as complete.
IsComplete_AtLeast(cs, fl) == Cardinality(cs) >= 2 /\ fl # None

\* "len(props) == 2 and fluid is not None"
IsComplete(cs, fl) == Cardinality(cs) = 2 /\ fl # None

Report(cs, fl, complete, st) ==
    [properties |-> sorted(cs), fluid |-> fl, is_complete |-> complete,
     status |-> IF complete THEN st.status ELSE "none",
     edition |-> IF complete THEN "version" ELSE "none",
     exc |-> "none", calls |-> IF complete THEN st.calls ELSE 0]

\* StateProps.constraints
Props_constraints(cs, vl, fl) ==
    Report(cs, fl, IsComplete(cs, fl),
           Props_status(cs, vl, Props_getter(cs, vl, fl, "quality"),
                        Props_get_prop(cs, vl, fl, "pcrit"),
                        Props_get_prop(cs, vl, fl, "Tcrit")))

\* self.constraints on an object of class k
constraints(k, cs, vl, fl) ==
    IF k = "HA" THEN HA_constraints(cs) ELSE Props_constraints(cs, vl, fl)

(***************************************************************************)
(* The fluid setter and the bulk set(props) of both classes.               *)
(***************************************************************************)
\* Mutant of FluidExc: the setter assigns whatever it is given.
FluidExc_Unchecked(x) == NoExc

\* StateProps.fluid setter: the exception raised, or NoExc
FluidExc(x) == IF ~IsString(x) THEN Raise("TypeError", "fluid must be a string") ELSE NoExc

\* the prop_map tables local to the two set() methods
HASetMap ==
    [c \in {"T", "P", "W", "R", "B", "D", "V", "H", "S", "C", "M", "K", "L"} |->
        CASE c = "T" -> "tempk" [] c = "P" -> "press" [] c = "W" -> "humrat"
          [] c = "R" -> "relhum" [] c = "B" -> "wetbulb" [] c = "D" -> "dewpoint"
          [] c = "V" -> "vol" [] c = "H" -> "enthalpy" [] c = "S" -> "entropy"
          [] c = "C" -> "cp" [] c = "M" -> "viscosity" [] c = "K" -> "conductivity"
          [] c = "L" -> "prandtl"]

PropsSetMap ==
    [c \in {"T", "P", "Q", "D", "H", "S", "C", "O"} |->
        CASE c = "T" -> "tempk" [] c = "P" -> "press" [] c = "Q" -> "quality"
          [] c = "D" -> "dens" [] c = "H" -> "enthalpy" [] c = "S" -> "entropy"
          [] c = "C" -> "cp" [] c = "O" -> "cv"]

SetMap(k) == IF k = "HA" THEN HASetMap ELSE PropsSetMap

\* StateProps.set wraps each setattr in "except ValueError: warnings.warn(...)";
\* StateHA.set lets every exception through
Swallowed(k, e) == k = "PROPS" /\ e.exc = "ValueError"

\* one pass of the loop body: setattr for a known code, nothing otherwise
Absorb(k, r) == IF Swallowed(k, r.exc) THEN Outcome(r.cset, r.val, NoExc, 0) ELSE r

SetPair(k, o, fl, pair) ==
    IF o.exc.exc # "none" THEN o
    ELSE IF pair[1] \notin DOMAIN SetMap(k) THEN o
    ELSE Absorb(k, SetAttr(k, o.cset, o.val, fl, SetMap(k)[pair[1]], pair[2]))

\* the loop over the code/value pairs; an exception that is let through ends it
SetLoop(k, cs, vl, fl, pairs) ==
    LET after[i \in 0..Len(pairs)] ==
            IF i = 0 THEN Outcome(cs, vl, NoExc, 0)
            ELSE SetPair(k, after[i - 1], fl, pairs[i])
    IN  after[Len(pairs)]

\* set(props): the object afterwards (with its fluid) and the exception raised.
\* For StateProps the list is pairs followed by the fluid name f.
WithFluid(r, f) == [cset |-> r.cset, val |-> r.val, fluid |-> f, exc |-> r.exc]

BulkSet(k, cs, vl, fl, pairs, f) ==
    IF k = "HA" THEN WithFluid(SetLoop(k, cs, vl, fl, pairs), fl)
    ELSE IF 2 * Len(pairs) + 1 < 5 THEN
        [cset |-> cs, val |-> vl, fluid |-> fl,
         exc |-> Raise("ValueError", "must include a fluid name")]
    ELSE IF FluidExc(f).exc # "none" THEN
        [cset |-> cs, val |-> vl, fluid |-> fl, exc |-> FluidExc(f)]
    ELSE WithFluid(SetLoop(k, cs, vl, f, pairs), f)

(***************************************************************************)
(* Bounds and the arguments tried.                                         *)
(***************************************************************************)
\* how many names beyond RequiredPins the constraint set is followed to
MaxExtra == 1

\* the longest list of code/value pairs handed to set()
MaxBulk == 2

\* the StateHA names written (the others share the code path of these)
HAWritten ==
    {"tempk", "tempc", "press", "relhum", "dewpoint", "vol", "density", "enthalpy",
     "viscosity"}

Written(k) == IF k = "HA" THEN HAWritten ELSE PropsNames

\* values inside the range check of each property
GoodValues(k, p) ==
    IF k = "HA" THEN
        CASE p = "tempk" -> {29815, 30815}
          [] p = "tempc" -> {2500}
          [] p = "press" -> {101325}
          [] p = "relhum" -> {50}
          [] p = "dewpoint" -> {30315}
          [] p = "vol" -> {50}
          [] p = "density" -> {125}
          [] p = "enthalpy" -> {50000}
          [] p = "viscosity" -> {1}
          [] OTHER -> {1}
    ELSE
        CASE p = "tempk" -> {37315, 70000}
          [] p = "tempc" -> {2500}
          [] p = "press" -> {101325}
          [] p = "dens" -> {100}
          [] p = "vol" -> {50}
          [] p = "quality" -> {50}
          [] p = "enthalpy" -> {2000000, 104800}
          [] p = "entropy" -> {7000}
          [] p = "cp" -> {4180}
          [] p = "cv" -> {4130}
          [] OTHER -> {1}

\* a value outside it
BadValues(k, p) ==
    CASE p = "tempk" -> {-100}
      [] p = "tempc" -> {-30000}
      [] p = "press" -> {-101325}
      [] p = "relhum" -> {150}
      [] p = "quality" -> {110}
      [] p = "dewpoint" -> {50000}
      [] p = "enthalpy" -> {200000000}
      [] p = "entropy" -> {2000000}
      [] p \in {"dens", "density"} -> {-500}
      [] OTHER -> {0}

\* the arguments a setter is called with: numbers and a string
Arguments(k, p) == {Num(n) : n \in GoodValues(k, p) \cup BadValues(k, p)} \cup {Text(2)}

\* the codes get_prop is called with; "X" is a code the library does not know
OutCodes == {"H", "X"}

\* the arguments replace is called with
ReplaceArguments == {<<"tempk", "enthalpy", Num(50000)>>}

\* the candidates test_state_validity is called with
TestArguments(k) ==
    IF k = "HA" THEN {<<"tempk", Num(30815)>>, <<"relhum", Num(50)>>}
    ELSE {<<"tempk", Num(70000)>>, <<"press", Num(101325)>>}

\* the values assigned to fluid
FluidArguments == {Text(1), Text(0), Num(123)}

\* the code/value pairs handed to set(); "X" is a code neither table knows
BulkPairs(k) ==
    IF k = "HA"
    THEN {<<"T", Num(29815)>>, <<"R", Num(150)>>, <<"X", Num(1)>>}
    ELSE {<<"T", Num(37315)>>, <<"P", Text(2)>>, <<"D", Num(-500)>>}

\* the last element of the list handed to StateProps.set (StateHA.set has none)
BulkFluids(k) == IF k = "HA" THEN {None} ELSE {Text(1), Num(123)}

BulkLists(k) ==
    UNION {[1..n -> BulkPairs(k)] : n \in 0..MaxBulk}

(***************************************************************************)
(* The object and the last call made on it.                                *)
(***************************************************************************)
Call(op, name, arg, e, calls, ret, npins, was) ==
    [op |-> op, name |-> name, arg |-> arg, exc |-> e.exc, msg |-> e.msg,
     wrapped |-> e.wrapped, calls |-> calls, ret |-> ret, npins |-> npins, was |-> was]

Init ==
    /\ kind \in {"HA", "PROPS"}
    /\ cset = {}
    /\ val = [a \in Attrs(kind) |-> None]
    /\ fluid = None
    /\ last = Call("init", "", None, NoExc, 0, None, 0, FALSE)

\* state.<p> = x, with r the outcome of the setter
WriteWith(p, x, r) ==
    /\ cset' = r.cset
    /\ val' = r.val
    /\ last' = Call("write", p, x, r.exc, r.calls, None, Cardinality(cset), p \in cset)
    /\ UNCHANGED <<kind, fluid>>

Write(p, x) ==
    /\ Cardinality(cset \cup {p}) <= RequiredPins(kind) + MaxExtra
    /\ WriteWith(p, x, SetAttr(kind, cset, val, fluid, p, x))

\* state.fluid = x
SetFluid(x) ==
    /\ kind = "PROPS"
    /\ fluid' = IF FluidExc(x).exc = "none" THEN x ELSE fluid
    /\ last' = Call("fluid", "fluid", x, FluidExc(x), 0, None, Cardinality(cset), FALSE)
    /\ UNCHANGED <<kind, cset, val>>

\* state.set(props), with r the outcome of set
SetWith(f, r) ==
    /\ Cardinality(r.cset) <= RequiredPins(kind) + MaxExtra
    /\ cset' = r.cset
    /\ val' = r.val
    /\ fluid' = r.fluid
    /\ last' = Call("set", "", f, r.exc, 0, None, Cardinality(cset), FALSE)
    /\ UNCHANGED kind

Set(pairs, f) == SetWith(f, BulkSet(kind, cset, val, fluid, pairs, f))

\* Mutant of ReadWith: the getter keeps the value it derived in the attribute.
ReadWith_Caching(p, r) ==
    /\ last' = Call("read", p, None, Raise(r.exc, "none"), r.calls, r.ret,
                    Cardinality(cset), p \in cset)
    /\ val' = IF r.exc = "none" /\ p \in DOMAIN val THEN [val EXCEPT ![p] = r.ret]
              ELSE val
    /\ UNCHANGED <<kind, cset, fluid>>

\* state.<p>, with r the outcome of the getter
ReadWith(p, r) ==
    /\ last' = Call("read", p, None, Raise(r.exc, "none"), r.calls, r.ret,
                    Cardinality(cset), p \in cset)
    /\ UNCHANGED <<kind, cset, val, fluid>>

Read(p) == ReadWith(p, GetAttr(kind, cset, val, fluid, p))

\* the methods the two classes define, next to the properties
MethodNames == {"constraints", "set", "get_prop", "test_state_validity"}

\* state.<m>(...): the lookup of a name the class does not define raises
LookupExc(m) ==
    IF m \in MethodNames THEN NoExc ELSE Raise("AttributeError", "has no attribute")

\* state.replace(old, new, x); the call of an attribute that was not found
\* does nothing else
Replace(old, new, x) ==
    /\ LookupExc("replace").exc # "none"
    /\ last' = Call("replace", old, x, LookupExc("replace"), 0, None,
                    Cardinality(cset), old \in cset)
    /\ UNCHANGED <<kind, cset, val, fluid>>

\* self.get_prop(code) on an object of class k
get_prop(k, cs, vl, fl, out) ==
    IF k = "HA" THEN HA_get_prop(cs, vl, out) ELSE Props_get_prop(cs, vl, fl, out)

\* state.get_prop(out), with r its outcome
GetPropWith(out, r) ==
    /\ last' = Call("get_prop", out, None, Raise(r.exc, "none"), r.calls, r.ret,
                    Cardinality(cset), FALSE)
    /\ UNCHANGED <<kind, cset, val, fluid>>

GetProp(out) == GetPropWith(out, get_prop(kind, cset, val, fluid, out))

\* True, as returned by test_state_validity
True == [t |-> "bool", v |-> 1]

\* test_props: the code/value pair of every name in current_props, then the
\* pair of the new property; no name is left out of current_props
TrialProps(k, cur, vl, np, x) ==
    [n \in cur \cup {"new_prop"} |->
        IF n = "new_prop"
        THEN <<PropMap(k)[np], IF np = "tempc" THEN x.v + KelvinOffset ELSE x.v>>
        ELSE <<PropMap(k)[n], InputValue(vl, n)>>]

\* "return True" after the call of the library
ThenTrue(r) == IF r.exc = "none" THEN Ret(True, r.calls) ELSE r

\* self.test_state_validity(current_props, new_prop, new_value); first is the
\* name list(current_props)[0] yields
test_state_validity(k, vl, fl, cur, np, x, first) ==
    IF k = "PROPS" /\ (fl = None \/ fl = Text(0)) THEN Exc("ValueError", 0)
    ELSE IF ~(cur \cup {np} \subseteq DOMAIN PropMap(k)) THEN Exc("KeyError", 0)
    ELSE IF cur = {} THEN Exc("IndexError", 0)
    ELSE ThenTrue(Oracle(k, PropMap(k)[first], TrialProps(k, cur, vl, np, x)))

\* state.test_state_validity(cur, np, x), with r its outcome
TestWith(np, x, r) ==
    /\ last' = Call("test", np, x, Raise(r.exc, "none"), r.calls, r.ret,
                    Cardinality(cset), np \in cset)
    /\ UNCHANGED <<kind, cset, val, fluid>>

\* the caller hands over the names pinned now
TestStateValidity(np, x) ==
    \E first \in IF cset = {} THEN {np} ELSE cset :
        TestWith(np, x, test_state_validity(kind, val, fluid, cset, np, x, first))

\* state.constraints, with r the report
ConstraintsWith(r) ==
    /\ last' = Call("constraints", "", None, Raise(r.exc, "none"), r.calls, None,
                    Cardinality(cset), FALSE)
    /\ UNCHANGED <<kind, cset, val, fluid>>

Constraints == ConstraintsWith(constraints(kind, cset, val, fluid))

Next ==
    \/ \E p \in Written(kind) : \E x \in Arguments(kind, p) : Write(p, x)
    \/ \E x \in FluidArguments : SetFluid(x)
    \/ \E pairs \in BulkLists(kind) : \E f \in BulkFluids(kind) : Set(pairs, f)
    \/ \E p \in Names(kind) : Read(p)
    \/ \E out \in OutCodes : GetProp(out)
    \/ \E a \in ReplaceArguments : Replace(a[1], a[2], a[3])
    \/ Constraints
    \/ \E a \in TestArguments(kind) : TestStateValidity(a[1], a[2])

Spec == Init /\ [][Next]_vars

(***************************************************************************)
(* The range checks on their own: a StateHA(), or a StateProps(fluid=      *)
(* 'Water'), written with the values at and next to the ends of each       *)
(* range while fewer than two names are pinned, so that whatever the       *)
(* check raises reaches the caller as it is.                               *)
(***************************************************************************)
\* the names whose range check has two ends
RangeChecked(k) ==
    IF k = "HA" THEN {"tempk", "wetbulb", "dewpoint", "press", "relhum", "humrat"}
    ELSE {"tempk", "press", "dens", "quality"}

RangeEdges(k, p) ==
    {NaN} \cup
    {Num(n) : n \in
        IF k = "HA" THEN
            CASE p \in {"tempk", "wetbulb", "dewpoint"} -> {-1, 0, 1, 47315, 47316}
              [] p = "press" -> {-1, 0, 1, 999, 1000, 10000000, 10000001}
              [] OTHER -> {-1, 0, 1, 100, 101}
        ELSE
            CASE p = "tempk" -> {-1, 0, 1, 200000, 200001}
              [] p = "press" -> {-1, 0, 1, 1000000000, 1000000001}
              [] p = "dens" -> {-1, 0, 1, 10000000, 10000001}
              [] OTHER -> {-1, 0, 1, 100, 101}}

InitRange ==
    /\ kind \in {"HA", "PROPS"}
    /\ cset = {}
    /\ val = [a \in Attrs(kind) |-> None]
    /\ fluid = IF kind = "PROPS" THEN Text(1) ELSE None
    /\ last = Call("init", "", None, NoExc, 0, None, 0, FALSE)

WriteEdge(p, x) ==
    /\ Cardinality(cset) < 2
    /\ WriteWith(p, x, SetAttr(kind, cset, val, fluid, p, x))

NextRange == \E p \in RangeChecked(kind) : \E x \in RangeEdges(kind, p) : WriteEdge(p, x)

SpecRange == InitRange /\ [][NextRange]_vars

(***************************************************************************)
(* Properties of the write path.                                           *)
(***************************************************************************)
Pins == Cardinality(cset)

Complete == Pins = RequiredPins(kind)

\* the last call was a write, made with n names pinned
WroteAt(n) == last.op = "write" /\ last.npins = n

\* the last call was a write of a name that was not pinned, on a complete state
WroteNewOnComplete == WroteAt(RequiredPins(kind)) /\ ~last.was

\* the argument of the last write passes the type and range checks of its setter
LastInRange == FuncExc(kind, last.name, last.arg).exc = "none"

\* the object takes writes: a StateHA, or a StateProps whose fluid is set
TakesWrites == kind = "HA" \/ fluid # None

\* C1: the constraint set never holds more names than the state needs
\* (3 for StateHA, 2 for StateProps), whatever writes and set() calls are made.
C1_PinCountBounded == Pins <= RequiredPins(kind)

\* C2: on a complete state, a write of an in-range value to a name that is not
\* pinned is rejected with the over-constraint error and pins nothing.
C2_NewNameRejected ==
    (WroteNewOnComplete /\ LastInRange) =>
        (last.exc = "ValueError" /\ last.wrapped /\ Pins = last.npins)

\* C3: whenever the pin count equals the required number, the property library
\* accepts the pinned combination.
C3_CompleteIsAccepted ==
    (Complete /\ cset \subseteq DOMAIN PropMap(kind)) =>
        ~OracleRejects(kind, "T", BuildProps(kind, cset, val))

\* C4: a write that raises leaves the constraint set, every stored value and
\* the fluid as they were before the call.
C4_FailedWriteChangesNothing ==
    [][(last'.op = "write" /\ last'.exc # "none")
          => (cset' = cset /\ val' = val /\ fluid' = fluid)]_vars

C4_Witness ==
    /\ last.op = "write" /\ last.exc # "none"
    /\ last.was /\ Pins >= 2

\* C5: while the fluid of a StateProps is unset, every write fails with the
\* missing-fluid error, whatever the value, and the constraint set is empty.
C5_FluidFirst ==
    (kind = "PROPS" /\ fluid = None) =>
        /\ cset = {}
        /\ last.op = "write" =>
              (last.exc = "ValueError" /\ last.msg = "fluid type must be set first")

C5_Witness ==
    /\ kind = "PROPS" /\ fluid = None
    /\ last.op = "write" /\ ~IsNumber(last.arg)

\* C6: once the state is complete, no later call changes the set of pinned names.
C6_CompleteStays == [][Complete => cset' = cset]_vars

C8_EarlyWriteAccepted ==
    (last.op = "write" /\ last.npins < RequiredPins(kind) - 1 /\ TakesWrites /\ LastInRange) =>
        /\ last.exc = "none"
        /\ last.calls = 0
        /\ last.name \in cset
        /\ GetAttr(kind, cset, val, fluid, last.name) = Ret(last.arg, 0)

C8_Witness ==
    /\ last.op = "write" /\ last.npins < RequiredPins(kind) - 1
    /\ last.exc = "none"
    /\ last.name \in {"enthalpy", "entropy", "cp", "cv", "viscosity", "vol"}

\* C9: a write of a non-number or of an out-of-range number raises, and no call
\* to the property library has been made when it does, at every pin count.
C9_BadValueFailsFast ==
    (last.op = "write" /\ ~LastInRange) => (last.exc # "none" /\ last.calls = 0)

\* writing dens = -5 on a complete StateProps
C9_Witness ==
    /\ kind = "PROPS" /\ WroteAt(2)
    /\ last.name = "dens" /\ last.arg = Num(-500)
    /\ last.exc = "ValueError" /\ last.msg = "must be positive" /\ last.calls = 0

\* C10: a write of a non-number raises TypeError "<name> must be a number",
\* at every pin count and whether or not the name is pinned (stated for the
\* objects that take writes; without a fluid C5's error comes first).
C10_NonNumberIsTypeError ==
    (last.op = "write" /\ ~IsNumber(last.arg) /\ TakesWrites) =>
        (last.exc = "TypeError" /\ last.msg = "must be a number" /\ ~last.wrapped)

(***************************************************************************)
(* Properties of the range checks and of the read path.                    *)
(***************************************************************************)
\* the ranges as documented: StateHA tempk, wetbulb, dewpoint in (0, 473.15],
\* press in [1000, 1e7], relhum and humrat in [0, 1]; StateProps tempk in
\* (0, 2000], press in (0, 1e9], dens in (0, 1e5], quality in [0, 1]
InDocumentedRange(k, p, x) ==
    /\ x.t = "num"
    /\ IF k = "HA" THEN
           CASE p \in {"tempk", "wetbulb", "dewpoint"} -> 0 < x.v /\ x.v <= 47315
             [] p = "press" -> 1000 <= x.v /\ x.v <= 10000000
             [] OTHER -> 0 <= x.v /\ x.v <= 100
       ELSE
           CASE p = "tempk" -> 0 < x.v /\ x.v <= 200000
             [] p = "press" -> 0 < x.v /\ x.v <= 1000000000
             [] p = "dens" -> 0 < x.v /\ x.v <= 10000000
             [] OTHER -> 0 <= x.v /\ x.v <= 100

\* the last call wrote a number to a name with a documented range
WroteRanged ==
    last.op = "write" /\ last.name \in RangeChecked(kind) /\ IsNumber(last.arg)

\* C11: a write of a number to a range-checked name is accepted exactly when
\* the number lies in the documented range, and raises ValueError otherwise.
C11_RangeCheckExact ==
    WroteRanged =>
        IF InDocumentedRange(kind, last.name, last.arg)
        THEN last.exc = "none"
        ELSE last.exc = "ValueError"

\* the same for the numbers that compare: every float but nan
C11_FiniteRangeCheckExact == (WroteRanged /\ last.arg # NaN) => C11_RangeCheckExact

\* C12: a pinned property reads as the value last written to it, without a
\* call of the property library: the name just written reads as the argument
\* of the write, and no read of a pinned name raises or calls the library.
C12_PinnedReadsWritten ==
    /\ (last.op = "write" /\ last.exc = "none") =>
           GetAttr(kind, cset, val, fluid, last.name) = Ret(last.arg, 0)
    /\ \A p \in cset :
           /\ GetAttr(kind, cset, val, fluid, p).exc = "none"
           /\ GetAttr(kind, cset, val, fluid, p).calls = 0

\* C13: while fewer names are pinned than the state needs, a read of a name
\* that is not pinned returns None and does not raise.
C13_UnpinnedReadsNone ==
    (last.op = "read" /\ ~last.was /\ last.npins < RequiredPins(kind)) =>
        (last.exc = "none" /\ last.ret = None)

\* the code/value pairs the pinned names stand for, tempc in kelvin
CurrentPins(k, cs, vl) ==
    [n \in cs |-> <<PropMap(k)[n], IF n = "tempc" THEN vl[n].v + KelvinOffset ELSE vl[n].v>>]

\* the pinned names stand for different codes
DistinctCodes(k, cs) == \A a, b \in cs : a # b => PropMap(k)[a] # PropMap(k)[b]

\* the pins are a full set of inputs the property library has a solution for
Solvable ==
    /\ Complete
    /\ kind = "PROPS" => fluid = Text(1)
    /\ cset \subseteq DOMAIN PropMap(kind)
    /\ DistinctCodes(kind, cset)
    /\ Solutions(kind, CurrentPins(kind, cset, val)) # {}

\* the value of the name p in the physical state s
ValueIn(k, p, s) ==
    IF p = "tempc" THEN Num(s["T"] - KelvinOffset)
    ELSE IF k = "HA" /\ p = "density" THEN Num(Recip(s["V"]))
    ELSE IF k = "PROPS" /\ p = "vol" THEN Num(Recip(s["D"]))
    ELSE Num(s[PropMap(k)[p]])

\* C14: on a complete state whose pins have a solution, every read of a name
\* that is not pinned returns the value that name has in the solution of the
\* pins as they are now, so also right after a pinned name was written again.
C14_DerivedFromCurrentPins ==
    Solvable =>
        \A p \in Names(kind) \ cset :
            \A s \in Solutions(kind, CurrentPins(kind, cset, val)) :
                /\ GetAttr(kind, cset, val, fluid, p).exc = "none"
                /\ GetAttr(kind, cset, val, fluid, p).ret = ValueIn(kind, p, s)

\* tempk, pinned on a complete state, was written again and enthalpy, not
\* pinned, reads as the enthalpy of the state at the new temperature
C14_Witness ==
    /\ last.op = "write" /\ last.exc = "none" /\ last.was
    /\ last.npins = RequiredPins(kind)
    /\ last.name = "tempk" /\ last.arg \in {Num(30815), Num(70000)}
    /\ Solvable
    /\ "enthalpy" \notin cset
    /\ GetAttr(kind, cset, val, fluid, "enthalpy").ret \in {Num(80000), Num(3900000)}

\* both temperature reads returned a number
BothNumbers(a, b) ==
    a.exc = "none" /\ b.exc = "none" /\ a.ret # None /\ b.ret # None

\* rk is the read of tempk and rc the read of tempc, after the call last
TempsInStep(rk, rc) ==
    /\ BothNumbers(rk, rc) => rk.ret = Plus(rc.ret, KelvinOffset)
    /\ (last.op = "write" /\ last.exc = "none" /\ last.name = "tempk" /\ rk.exc = "none")
           => rk.ret = last.arg
    /\ (last.op = "write" /\ last.exc = "none" /\ last.name = "tempc" /\ rc.exc = "none")
           => rc.ret = last.arg

\* C15: whenever tempk and tempc both read as a number, tempk is tempc + 273.15,
\* and after a write of either the view written reads as the value written.
C15_TempViewsAgree ==
    TempsInStep(GetAttr(kind, cset, val, fluid, "tempk"),
                GetAttr(kind, cset, val, fluid, "tempc"))

\* C16: tempk and tempc are never both in the constraint set.
C16_OneTemperaturePin == ~({"tempk", "tempc"} \subseteq cset)

\* C17: the volume name and the density name are never both in the constraint
\* set (vol and density on StateHA, vol and dens on StateProps).
C17_OneVolumePin ==
    /\ ~({"vol", "density"} \subseteq cset)
    /\ ~({"vol", "dens"} \subseteq cset)

\* the name of the density property of class k
DensityName(k) == IF k = "HA" THEN "density" ELSE "dens"

\* rd is the read of the density and rv the read of the volume
ReciprocalReads(rd, rv) == BothNumbers(rd, rv) => rv.ret = Inverse(rd.ret)

\* C18: whenever the density and the volume both read as a number, the volume
\* is 1 / density.
C18_VolumeIsInverseDensity ==
    ReciprocalReads(GetAttr(kind, cset, val, fluid, DensityName(kind)),
                    GetAttr(kind, cset, val, fluid, "vol"))

\* the attributes of an object on which the name a was never written
Unset(vl, a) == IF a \in DOMAIN vl THEN [vl EXCEPT ![a] = None] ELSE vl

\* the physical quantity a name stands for: the two temperature views are one
\* quantity, and so are the volume and the density
Quantity(p) ==
    IF p \in {"tempk", "tempc"} THEN "temperature"
    ELSE IF p \in {"vol", "density", "dens"} THEN "volume"
    ELSE p

\* the name cn is independent of the names ns
Independent(cn, ns) == \A n \in ns : Quantity(n) # Quantity(cn)

\* c is the read of the name cn and a the read of the pinned name an on the
\* object (cs, vl, fl); when cn is independent of the remaining pins and c is
\* a number the setter of cn takes, the object pinned by cn at that number in
\* place of an reads an as a did
RoundTripVia(k, cs, vl, fl, an, cn, c, a) ==
    (/\ Independent(cn, cs \ {an})
     /\ c.exc = "none" /\ c.ret # None
     /\ FuncExc(k, cn, c.ret).exc = "none") =>
        /\ GetAttr(k, (cs \ {an}) \cup {cn}, SetterBody(k, Unset(vl, an), cn, c.ret),
                   fl, an).exc = "none"
        /\ GetAttr(k, (cs \ {an}) \cup {cn}, SetterBody(k, Unset(vl, an), cn, c.ret),
                   fl, an).ret = a.ret

\* C19: on a complete state whose pins have a solution, for every pinned name A
\* and every other name C, an object pinned by C at the value read for it, in
\* place of A and next to the same remaining pins, reads A as the first did.
C19_RoundTrip ==
    Solvable =>
        \A an \in cset : \A cn \in Names(kind) \ cset :
            RoundTripVia(kind, cset, val, fluid, an, cn,
                         GetAttr(kind, cset, val, fluid, cn),
                         GetAttr(kind, cset, val, fluid, an))

\* the same for every name C but the StateHA density and the StateProps vol
RoundTripElsewhere ==
    Solvable =>
        \A an \in cset :
          \A cn \in (Names(kind) \ cset) \ (IF kind = "HA" THEN {"density"} ELSE {"vol"}) :
            RoundTripVia(kind, cset, val, fluid, an, cn,
                         GetAttr(kind, cset, val, fluid, cn),
                         GetAttr(kind, cset, val, fluid, an))

\* the inputs ins are as many as the state needs, under different codes, and
\* are the pinned names at their values
FullInputs(k, cs, vl, ins) ==
    /\ Cardinality(DOMAIN ins) = RequiredPins(k)
    /\ \A a, b \in DOMAIN ins : a # b => ins[a][1] # ins[b][1]
    /\ ins = CurrentPins(k, cs, vl)

\* C20: whenever a read calls the property library, the inputs it passes are
\* exactly as many pairs as the state needs, one per pinned name, at the
\* value of that name, and no code is passed twice.
C20_FullDistinctInputs ==
    (last.op = "read" /\ last.calls > 0) =>
        FullInputs(kind, cset, val, BuildProps(kind, cset, val))

(***************************************************************************)
(* Properties of get_prop, set(), constraints and the fluid.               *)
(***************************************************************************)
\* the fluid counts as unset for get_prop: None, or the empty string
FluidUnset == fluid = None \/ fluid = Text(0)

C22_VersionCounts ==
    [][/\ "version" \in DOMAIN val
       /\ IF last'.op = "write" /\ last'.exc = "none"
          THEN val'["version"] = Plus(val["version"], 1)
          ELSE last'.op \in {"write", "read", "get_prop", "fluid"}
                   => val'["version"] = val["version"]]_vars

\* the step is a successful write, on a complete state, of the value it already
\* holds to a pinned name
SameValueRewrite ==
    /\ last'.op = "write" /\ last'.exc = "none" /\ last'.was
    /\ last'.npins = RequiredPins(kind)
    /\ GetAttr(kind, cset, val, fluid, last'.name) = Ret(last'.arg, 0)

\* every read but that of the name n gives after the step what it gave before
OtherReadsKept(n) ==
    \A p \in Names(kind) \ {n} :
        GetAttr(kind, cset', val', fluid', p) = GetAttr(kind, cset, val, fluid, p)

\* C23: writing to a pinned name of a complete state the value it already holds
\* leaves every other pinned value and every derived read as it was, and raises
\* the version by exactly 1.
C23_IdempotentReset ==
    [][SameValueRewrite =>
          /\ OtherReadsKept(last'.name)
          /\ "version" \in DOMAIN val
          /\ val'["version"] = Plus(val["version"], 1)]_vars

\* the same without the version
RewriteKeepsReads == [][SameValueRewrite => OtherReadsKept(last'.name)]_vars

\* what replace(old, new, x) is to do in the step
ReplaceIsAtomic(old, new) ==
    IF old \notin cset THEN
        last'.exc = "NotPinnedError" /\ cset' = cset /\ val' = val /\ fluid' = fluid
    ELSE IF last'.exc = "none" THEN
        old \notin cset' /\ new \in cset' /\ Cardinality(cset') = Cardinality(cset)
    ELSE cset' = cset /\ val' = val /\ fluid' = fluid

\* C24: replace(old, new, x) raises NotPinnedError when old is not pinned; when
\* it raises, the constraint set, the values and the fluid are as before; when
\* it returns, old is no longer pinned, new is, and the pin count is the same.
C24_ReplaceAtomic ==
    [][\A a \in ReplaceArguments :
          Replace(a[1], a[2], a[3]) => ReplaceIsAtomic(a[1], a[2])]_vars

\* the per-property writes a list of code/value pairs stands for, issued one
\* after another on the object; the first one that raises ends the sequence
OneByOne(k, cs, vl, fl, pairs) ==
    LET after[i \in 0..Len(pairs)] ==
            IF i = 0 THEN Outcome(cs, vl, NoExc, 0)
            ELSE IF after[i - 1].exc.exc # "none" THEN after[i - 1]
            ELSE IF pairs[i][1] \notin DOMAIN SetMap(k) THEN after[i - 1]
            ELSE SetAttr(k, after[i - 1].cset, after[i - 1].val, fl,
                         SetMap(k)[pairs[i][1]], pairs[i][2])
    IN  after[Len(pairs)]

\* the fluid the writes are made under: the one handed to set() when it is a
\* string, the object's own otherwise
FluidFor(f) == IF f # None /\ FluidExc(f).exc = "none" THEN f ELSE fluid

SetMatches(pairs, f, r) ==
    /\ cset' = r.cset
    /\ val' = r.val
    /\ last'.exc = r.exc.exc

\* C25: set(props) ends with the constraint set and the stored values that the
\* corresponding per-property writes, issued one after another, end with, and
\* a pair whose own write raises makes set() raise that error.
C25_BulkIsSequential ==
    [][\A f \in BulkFluids(kind) : \A pairs \in BulkLists(kind) :
          (Set(pairs, f) /\ (f # None => FluidExc(f).exc = "none"))
              => SetMatches(pairs, f, OneByOne(kind, cset, val, FluidFor(f), pairs))]_vars

\* the code the last read or get_prop asked the property library for
AskedCode ==
    IF last.op = "get_prop" THEN last.name
    ELSE IF last.name = "tempc" THEN "T"
    ELSE IF kind = "HA" /\ last.name = "density" THEN "V"
    ELSE IF kind = "HA" /\ last.name = "dewpoint" THEN "D"
    ELSE IF kind = "PROPS" /\ last.name = "vol" THEN "D"
    ELSE PropMap(kind)[last.name]

\* the last operation reached the property library, which raised
OracleFailed ==
    /\ last.op \in {"write", "set", "read", "get_prop"}
    /\ last.calls > 0
    /\ Oracle(kind, AskedCode, BuildProps(kind, cset, val)).exc # "none"

QualityRead == kind = "PROPS" /\ last.op = "read" /\ last.name = "quality"

\* C26 as stated: whenever the property library rejects the inputs during a
\* write, a set() or a derived read, the operation raises.
C26_OracleFailureSurfaces == OracleFailed => last.exc # "none"

\* C26: whenever the property library rejects the inputs during a write, a
\* set(), a get_prop or a derived read, the operation raises, except the read of
\* quality on StateProps, which returns None.
C26_SurfacesButQuality ==
    OracleFailed =>
        IF QualityRead THEN last.exc = "none" /\ last.ret = None
        ELSE last.exc # "none"

\* a derived read other than quality reached the library, which rejected the
\* pins, and the read raised ValueError
C26_Witness ==
    /\ OracleFailed /\ last.op = "read" /\ ~QualityRead
    /\ last.exc = "ValueError"

\* the phase probe of a complete StateProps failed: the property library
\* raised while quality was resolved
ProbeFailed ==
    /\ kind = "PROPS" /\ IsComplete(cset, fluid) /\ "quality" \notin cset
    /\ Props_get_prop(cset, val, fluid, "Q").calls > 0
    /\ Props_get_prop(cset, val, fluid, "Q").exc # "none"

\* C27: constraints never raises, and when the phase probe of a complete
\* StateProps fails the status reported is the unknown one, not a phase.
C27_ProbeFailureIsUnknown ==
    last.op = "constraints" =>
        /\ last.exc = "none"
        /\ ProbeFailed => constraints(kind, cset, val, fluid).status = "Unknown"

\* the place of a name in the order of sorted()
Place(n) == CHOOSE i \in 1..Len(Alphabet) : Alphabet[i] = n

\* the names in the list constraints reports
Reported(r) == {r.properties[i] : i \in 1..Len(r.properties)}

\* the list is in ascending order, which leaves no room for a duplicate
Ascending(r) ==
    \A i, j \in 1..Len(r.properties) :
        i < j => Place(r.properties[i]) < Place(r.properties[j])

\* what the report of StateProps says next to the names
FluidAndComplete(r) ==
    /\ {"fluid", "is_complete"} \subseteq DOMAIN r
    /\ r.fluid = fluid
    /\ r.is_complete <=> (Cardinality(cset) = RequiredPins(kind) /\ fluid # None)

\* the constraint set grows by the name of each successful write and by
\* nothing else
TracksWrites ==
    /\ (last'.op = "write" /\ last'.exc = "none") => cset' = cset \cup {last'.name}
    /\ (last'.op = "write" /\ last'.exc # "none") => cset' = cset
    /\ last'.op = "set" => cset \subseteq cset'
    /\ last'.op \in {"read", "get_prop", "fluid", "constraints", "replace"} =>
           cset' = cset

\* the list reported holds the constraint set, in ascending order
ReportNames(r) == Ascending(r) /\ Reported(r) = cset

\* C28 as stated, for both classes: constraints reports exactly the names
\* successfully written, sorted and without duplicates, the current fluid, and
\* is_complete true if and only if the pin count is RequiredPins and the fluid
\* is set.
C28_ReportsAll ==
    /\ ReportNames(constraints(kind, cset, val, fluid))
    /\ kind = "PROPS" => FluidAndComplete(constraints(kind, cset, val, fluid))
    /\ kind = "HA" => "is_complete" \in DOMAIN constraints(kind, cset, val, fluid)

\* C28: constraints reports exactly the names successfully written (the
\* constraint set, which each successful write adds its name to and nothing
\* takes a name from), sorted and without duplicates; on StateProps it
\* reports also the current fluid and is_complete, true if and only if the
\* pin count is RequiredPins and the fluid is not None; on StateHA it reports
\* the names only.
C28_ConstraintsReport ==
    /\ [](/\ ReportNames(constraints(kind, cset, val, fluid))
          /\ kind = "PROPS" => FluidAndComplete(constraints(kind, cset, val, fluid))
          /\ kind = "HA" => DOMAIN constraints(kind, cset, val, fluid)
                               = {"properties", "exc", "calls"})
    /\ [][TracksWrites]_vars

\* constraints was read on a StateProps with a fluid and three names pinned,
\* and reports the three names and is_complete False
C28_Witness ==
    /\ last.op = "constraints" /\ kind = "PROPS" /\ fluid # None
    /\ Cardinality(cset) = RequiredPins(kind) + 1
    /\ Len(constraints(kind, cset, val, fluid).properties) = 3
    /\ ~constraints(kind, cset, val, fluid).is_complete

\* what the library answers for quality from the pins of a complete state
QualityOfPins ==
    IF fluid = Text(0) \/ OracleRejects(kind, "Q", BuildProps(kind, cset, val))
    THEN None
    ELSE Num(OracleValue(kind, "Q", BuildProps(kind, cset, val)))

\* C29: a read of quality on StateProps never raises ValueError: it returns
\* the pinned value when quality is pinned, None when the state is not
\* complete, and on a complete state the library's value, or None when the
\* library raises ValueError.
C29_QualityRead ==
    QualityRead =>
        /\ last.exc # "ValueError"
        /\ last.exc = "none"
        /\ IF "quality" \in cset THEN last.ret = val["quality"]
           ELSE IF ~IsComplete(cset, fluid) THEN last.ret = None
           ELSE last.ret = QualityOfPins

\* the same without the states that have vol among their pins
QualityReadWithoutVol == "vol" \notin cset => C29_QualityRead

\* nothing but the fluid may differ after the step
OnlyFluidMay == cset' = cset /\ val' = val /\ kind' = kind

\* C30: the assignment of a value that is not a string to fluid raises
\* TypeError and leaves the fluid as it was; the assignment of a string makes
\* it the fluid and leaves the constraint set and every stored value as they
\* were, at any pin count.
C30_FluidFrame ==
    [][last'.op = "fluid" =>
          IF IsString(last'.arg)
          THEN last'.exc = "none" /\ fluid' = last'.arg /\ OnlyFluidMay
          ELSE last'.exc = "TypeError" /\ fluid' = fluid /\ OnlyFluidMay]_vars

\* a number was assigned to the fluid of a complete StateProps, which still
\* has the fluid name it had
C30_Witness ==
    /\ last.op = "fluid" /\ ~IsString(last.arg) /\ last.exc = "TypeError"
    /\ last.npins = RequiredPins(kind) /\ Cardinality(cset) = RequiredPins(kind)
    /\ fluid = Text(1)

(***************************************************************************)
(* Properties of test_state_validity, of rewrites, of reads and of the     *)
(* order of writes.                                                        *)
(***************************************************************************)
\* the trial list the check is to use: the other pins, then the candidate
OtherPinsAndCandidate == TrialProps(kind, cset \ {last.name}, val, last.name, last.arg)

\* the library can be asked about the other pins and the candidate
Askable ==
    /\ kind = "PROPS" => fluid = Text(1)
    /\ cset \cup {last.name} \subseteq DOMAIN PropMap(kind)
    /\ cset \ {last.name} # {}
    /\ OracleArity(kind, OtherPinsAndCandidate)

\* C31: test_state_validity asks the library about the pinned properties other
\* than new_prop, plus the candidate, so never about new_prop's old value; it
\* returns True when the library accepts them and raises ValueError when it
\* rejects them; it does not change the state.
C31_TrialExcludesOldValue ==
    /\ []((last.op = "test" /\ Askable) =>
             IF OracleRejects(kind, "T", OtherPinsAndCandidate)
             THEN last.exc = "ValueError"
             ELSE last.exc = "none" /\ last.ret = True)
    /\ [][last'.op = "test" => cset' = cset /\ val' = val /\ fluid' = fluid]_vars

\* the same for a candidate that is not among the names handed over
TrialOfNewName ==
    (last.op = "test" /\ ~last.was /\ Askable) =>
        IF OracleRejects(kind, "T", OtherPinsAndCandidate)
        THEN last.exc = "ValueError"
        ELSE last.exc = "none" /\ last.ret = True

\* the attribute that holds the value of the pinned name q
StoredOf(k, vl, q) == IF k = "PROPS" /\ q = "vol" THEN vl["dens"] ELSE vl[q]

\* the step is a successful write of a name that was pinned
Rewrite == last'.op = "write" /\ last'.exc = "none" /\ last'.was

RewriteFrameElsewhere ==
    [][(Rewrite /\ ~({"tempc", "tempk"} \subseteq cset)
                /\ ~({"vol", "dens"} \subseteq cset)) =>
          /\ cset' = cset
          /\ \A q \in cset \ {last'.name} :
                 StoredOf(kind, val', q) = StoredOf(kind, val, q)]_vars

\* C33: no property getter, get_prop call or read of constraints changes the
\* constraint set, a stored value or the fluid, whether it returns a value,
\* returns None or raises.
C33_ReadsArePure ==
    [][last'.op \in {"read", "get_prop", "constraints"} =>
          cset' = cset /\ val' = val /\ fluid' = fluid]_vars

\* a name that is not pinned was read on a complete state and the value came
\* from the property library; the attribute of the name still holds None
C33_Witness ==
    /\ last.op = "read" /\ ~last.was /\ last.exc = "none" /\ last.calls > 0
    /\ last.ret # None /\ last.name \in DOMAIN val /\ val[last.name] = None
    /\ Complete

\* the object after the write of p and then of q, each write as the setter
\* makes it; ok when both returned
After(o, p, x) == SetAttr(kind, o.cset, o.val, fluid, p, x)

Here == Outcome(cset, val, NoExc, 0)

BothOk(p, x, q, y) ==
    After(Here, p, x).exc.exc = "none" /\ After(After(Here, p, x), q, y).exc.exc = "none"

SameObject(a, b) ==
    /\ a.cset = b.cset
    /\ a.val = b.val
    /\ \A n \in Names(kind) :
           GetAttr(kind, a.cset, a.val, fluid, n) = GetAttr(kind, b.cset, b.val, fluid, n)

Commute(p, x, q, y) ==
    (BothOk(p, x, q, y) /\ BothOk(q, y, p, x)) =>
        SameObject(After(After(Here, p, x), q, y), After(After(Here, q, y), p, x))

FreePins == RequiredPins(kind) - Cardinality(cset)

\* C34: on a state with at least two free pins, two successful writes of
\* different names end in the same constraint set, the same stored values and
\* the same reads whichever is made first, also for tempc with tempk and for
\* vol with dens.
C34_WritesCommute ==
    FreePins >= 2 =>
        \A p, q \in Written(kind) : p # q =>
            \A x \in Arguments(kind, p) : \A y \in Arguments(kind, q) :
                Commute(p, x, q, y)

\* the same for the pairs of names that stand for different quantities
CommuteElsewhere ==
    FreePins >= 2 =>
        \A p, q \in Written(kind) : Quantity(p) # Quantity(q) =>
            \A x \in Arguments(kind, p) : \A y \in Arguments(kind, q) :
                Commute(p, x, q, y)

(***************************************************************************)
(* Properties of a set() that raises, of the growth of the constraint set  *)
(* and of the status constraints reports.                                  *)
(***************************************************************************)
\* the step is a StateProps.set(props) that raised
SetRaised == kind = "PROPS" /\ last'.op = "set" /\ last'.exc # "none"

\* C35: when StateProps.set(props) raises, the fluid, the constraint set and
\* every stored value are as they were before the call.
C35_FailedSetChangesNothing ==
    [][SetRaised => fluid' = fluid /\ cset' = cset /\ val' = val]_vars

\* the part about a list that is too short or ends in a fluid that is no string
ShortSetChangesNothing ==
    [][(SetRaised /\ last'.msg \in {"must include a fluid name",
                                    "fluid must be a string"}) =>
          fluid' = fluid /\ cset' = cset /\ val' = val]_vars

\* C36: no step takes a name out of the constraint set, so the pin count
\* never gets smaller.
C36_PinsOnlyGrow ==
    [][cset \subseteq cset' /\ Cardinality(cset') >= Cardinality(cset)]_vars

\* the write of a pinned name of a complete state raised, and the name is
\* still pinned
C36_Witness ==
    /\ last.op = "write" /\ last.exc # "none" /\ last.was
    /\ last.npins = RequiredPins(kind)
    /\ last.name \in cset /\ Cardinality(cset) = RequiredPins(kind)

\* the status that goes with a pinned quality
StatusFor(q) ==
    IF q = Num(0) THEN "saturated_liquid"
    ELSE IF q = Num(100) THEN "saturated_vapor"
    ELSE "two_phase"

\* C37: on StateProps the status constraints reports is None exactly when
\* is_complete is false; when quality is pinned on a complete state it is
\* 'saturated_liquid' for 0, 'saturated_vapor' for 1 and 'two_phase'
\* otherwise, and the property library is not called.
C37_StatusIffComplete ==
    (kind = "PROPS" /\ last.op = "constraints") =>
        /\ constraints(kind, cset, val, fluid).status = "none"
               <=> ~constraints(kind, cset, val, fluid).is_complete
        /\ (IsComplete(cset, fluid) /\ "quality" \in cset) =>
               /\ constraints(kind, cset, val, fluid).status = StatusFor(val["quality"])
               /\ last.calls = 0

\* the part about a pinned quality
StatusOfPinnedQuality ==
    (kind = "PROPS" /\ last.op = "constraints" /\ IsComplete(cset, fluid)
        /\ "quality" \in cset) =>
            /\ constraints(kind, cset, val, fluid).status = StatusFor(val["quality"])
            /\ last.calls = 0

====
